---- MODULE Spec2Model ----
(***************************************************************************)
(* The duplicate filters of mob_scrapy_redis_sentinel/dupefilter.py:       *)
(* RedisDupeFilter (a Redis set), RedisBloomFilter (a Redis bit vector     *)
(* behind BloomFilter) and MongoDupeFilter (a collection with a unique     *)
(* index on "fp").  Filter instances live in independent processes and     *)
(* share the backing store; every store round trip is one atomic step.     *)
(***************************************************************************)
EXTENDS Integers, FiniteSets, TLC

\* ------------------------------------------------------------- bounds
NumProcs == 2
MaxFp == 2
MaxOps == 3

\* ------------------------------------------------ configuration values
bit == 2
hash_number == 2

Procs == 1..NumProcs
Fingerprints == 0..MaxFp
Keys == {"job1", "job2"}
Classes == {"RedisDupeFilter", "RedisBloomFilter", "MongoDupeFilter"}
Reasons == {"", "finished"}

VARIABLES
    dupefilter_class,  \* the filter class the job is configured with
    key,               \* key[p]: self.key / self.collection of instance p
    redis_set,         \* redis_set[k]: members of the Redis set at key k
    redis_bits,        \* redis_bits[k]: offsets of the bits set to 1 at key k
    mongo_docs,        \* mongo_docs[k][f]: documents {"fp": f} in collection k
    mongo_index,       \* mongo_index[k]: collection k has the unique index on fp
    pc,                \* pc[p]: where instance p is inside request_seen
    fp,                \* fp[p]: the fingerprint of the call in progress
    idx,               \* idx[p]: next hash function of exists / insert
    exist,             \* exist[p]: the accumulator of BloomFilter.exists
    nops,              \* calls started so far (bounded by MaxOps)
    only,              \* only[p]: what p's one call returned, "more" once p has made another
    ev,                \* the most recent return, and what its call found when it began
    submitted,         \* submitted[k]: fingerprints some request_seen on k has returned for
    quiet,             \* quiet[k]: "clear"/"close" when that ran on k with no call in flight and none began since
    ctx,               \* ctx[p]: quiet[key[p]] as the call in progress found it
    cleared,           \* cleared[k]: clear() or close() was ever called on k
    ret_false,         \* ret_false[k]: request_seen returned False for these since the last clear
    recorded,          \* recorded[k]: those of ret_false[k] whose insert no clear overlapped
    overlap,           \* overlap[p]: a clear ran on key[p] since p's insert set its first bit
    inserted,          \* inserted[k]: fingerprints whose BloomFilter.insert has set a bit on k
    known,             \* known[p]: p's call began with its fingerprint recorded, and no clear ran since
    debug,             \* self.debug: the DUPEFILTER_DEBUG setting of the job
    logdupes,          \* logdupes[p]: self.logdupes of instance p
    logged,            \* logged[p]: messages instance p has passed to logger.debug
    filtered,          \* filtered[p]: inc_value calls on the stats of p's crawler
    nlog,              \* nlog[p]: log() calls made on instance p
    budget,            \* the number of calls a behaviour is followed for
    fault              \* the error a store operation raised inside the call that returned last

store == <<redis_set, redis_bits, mongo_docs, mongo_index>>
local == <<pc, fp, idx, exist>>
history == <<nops, only, ev, submitted, quiet, ctx, cleared>>
bloomhist == <<ret_false, recorded, overlap, inserted, known>>
fixed == <<dupefilter_class, key, debug, budget>>
logging == <<logdupes, logged, filtered, nlog>>
vars == <<fixed, store, local, history, bloomhist, logging, fault>>

NoEvent == [proc |-> 0, op |-> "none", fp |-> 0, res |-> "none",
            after |-> "none", again |-> FALSE, fresh |-> FALSE, known |-> FALSE]

SameKey(p) == {q \in Procs : key[q] = key[p]}
OthersIdle(p) == \A q \in SameKey(p) \ {p} : pc[q] = "idle"

\* ------------------------------------------------ the backing stores
sadd_counts_arguments(members, f) == 1

\* Redis SADD key member: the number of members actually added.
sadd(members, f) == IF f \in members THEN 0 ELSE 1

delete_nothing(db, k) == db

delete_all(db, k) == [x \in DOMAIN db |-> {}]

\* Redis DEL key: the key is gone, whether or not it existed; never an error.
delete(db, k) == [db EXCEPT ![k] = {}]

\* Redis GETBIT key offset.
getbit(bits, offset) == offset \in bits

\* Redis SETBIT key offset 1.
setbit(bits, offset) == bits \cup {offset}

\* pymongo find_one({"fp": f}): a document or None.
find_one(docs, f) == docs[f] > 0

never_DuplicateKeyError(docs, unique, f) == FALSE

\* pymongo insert_one({"fp": f}) raises DuplicateKeyError under the unique index.
DuplicateKeyError(docs, unique, f) == unique /\ docs[f] > 0

insert_one(docs, unique, f) ==
    IF DuplicateKeyError(docs, unique, f) THEN docs ELSE [docs EXCEPT ![f] = @ + 1]

\* ---------------------------------------------------- BloomFilter
m == 2 ^ bit
h1(f) == f % m
h2(f) == 1 + (f \div m)
offset(f, i) == (h1(f) + i * h2(f)) % m
offsets(f) == {offset(f, i) : i \in 0..(hash_number - 1)}

\* Instances and keys are interchangeable: the first n instances are built on
\* "job1" and the others on "job2", for every n.
InitFilters ==
    /\ dupefilter_class \in Classes
    /\ \E n \in Procs : key = [p \in Procs |-> IF p <= n THEN "job1" ELSE "job2"]
    /\ redis_set = [k \in Keys |-> {}]
    /\ redis_bits = [k \in Keys |-> {}]
    /\ mongo_docs = [k \in Keys |-> [f \in Fingerprints |-> 0]]
    /\ mongo_index = [k \in Keys |-> dupefilter_class = "MongoDupeFilter" /\ \E p \in Procs : key[p] = k]
    /\ pc = [p \in Procs |-> "idle"]
    /\ fp = [p \in Procs |-> 0]
    /\ idx = [p \in Procs |-> 0]
    /\ exist = [p \in Procs |-> TRUE]
    /\ nops = 0
    /\ only = [p \in Procs |-> "none"]
    /\ ev = NoEvent
    /\ submitted = [k \in Keys |-> {}]
    /\ quiet = [k \in Keys |-> "none"]
    /\ ctx = [p \in Procs |-> "none"]
    /\ cleared = [k \in Keys |-> FALSE]
    /\ ret_false = [k \in Keys |-> {}]
    /\ recorded = [k \in Keys |-> {}]
    /\ overlap = [p \in Procs |-> FALSE]
    /\ inserted = [k \in Keys |-> {}]
    /\ known = [p \in Procs |-> FALSE]
    /\ logdupes = [p \in Procs |-> TRUE]
    /\ logged = [p \in Procs |-> 0]
    /\ filtered = [p \in Procs |-> 0]
    /\ nlog = [p \in Procs |-> 0]
    /\ fault = "none"

\* debug=False is the default of __init__ and of DUPEFILTER_DEBUG.
Init == InitFilters /\ debug = FALSE /\ budget = MaxOps

\* ------------------------------------------- calls and their returns
\* The record of a call of instance p: `starts` when this step is the call's
\* first, `ends` when it returns `res` in this step, `err` what its store
\* operation raised ("none" when it raised nothing).
CallMet(p, starts, ends, op, f, res, err) ==
    LET k == key[p]
        c == IF starts THEN quiet[k] ELSE ctx[p]
    IN  /\ nops' = IF starts THEN nops + 1 ELSE nops
        /\ ctx' = [q \in Procs |->
                     IF q = p THEN (IF ends THEN "none" ELSE c)
                     ELSE IF starts /\ key[q] = k THEN "none" ELSE ctx[q]]
        /\ quiet' = IF ~starts THEN quiet
                    ELSE [quiet EXCEPT ![k] =
                            IF ends /\ op \in {"clear", "close"} /\ OthersIdle(p)
                            THEN op ELSE "none"]
        /\ cleared' = IF op \in {"clear", "close"} THEN [cleared EXCEPT ![k] = TRUE] ELSE cleared
        /\ IF ends
           THEN /\ only' = [only EXCEPT ![p] =
                              IF @ = "none" /\ op = "request_seen" THEN res ELSE "more"]
                /\ ev' = [proc |-> p, op |-> op, fp |-> f, res |-> res, after |-> c,
                          again |-> op = "request_seen" /\ f \in submitted[k],
                          fresh |-> only[p] = "none",
                          known |-> IF starts THEN f \in recorded[k] ELSE known[p]]
                /\ submitted' = IF op = "request_seen"
                                THEN [submitted EXCEPT ![k] = @ \cup {f}] ELSE submitted
           ELSE UNCHANGED <<only, ev, submitted>>
        /\ fault' = IF ends THEN err ELSE fault

Call(p, starts, ends, op, f, res) == CallMet(p, starts, ends, op, f, res, "none")

Idle(p) ==
    /\ pc' = [pc EXCEPT ![p] = "idle"]
    /\ fp' = [fp EXCEPT ![p] = 0]
    /\ idx' = [idx EXCEPT ![p] = 0]
    /\ exist' = [exist EXCEPT ![p] = TRUE]

CanStart(p, class) ==
    /\ dupefilter_class = class
    /\ pc[p] = "idle"
    /\ nops < budget

\* The record of a request_seen(f) on key k that returns res in one step with
\* its write, so that no clear() can overlap the write.
Records(k, f, res) ==
    /\ ret_false' = [ret_false EXCEPT ![k] = IF res = "False" THEN @ \cup {f} ELSE @]
    /\ recorded' = [recorded EXCEPT ![k] = IF res = "False" THEN @ \cup {f} ELSE @]
    /\ UNCHANGED <<overlap, inserted, known>>

\* The record of a clear() or close() call on key k.
Forgets(k) ==
    /\ ret_false' = [ret_false EXCEPT ![k] = {}]
    /\ recorded' = [recorded EXCEPT ![k] = {}]
    /\ UNCHANGED <<overlap, inserted, known>>

\* ------------------------------------------------- RedisDupeFilter
seen_if_any_added(added) == IF added = 0 THEN "False" ELSE "True"

\* return added == 0
seen_if_none_added(added) == IF added = 0 THEN "True" ELSE "False"

RedisDupeFilter_request_seen(p) ==
    /\ CanStart(p, "RedisDupeFilter")
    /\ \E f \in Fingerprints :
         LET added == sadd(redis_set[key[p]], f)
         IN  /\ redis_set' = [redis_set EXCEPT ![key[p]] = @ \cup {f}]
             /\ Call(p, TRUE, TRUE, "request_seen", f, seen_if_none_added(added))
             /\ Records(key[p], f, seen_if_none_added(added))
    /\ UNCHANGED <<fixed, logging, redis_bits, mongo_docs, mongo_index, local>>

RedisDupeFilter_clear_needs_key(p) ==
    /\ CanStart(p, "RedisDupeFilter")
    /\ redis_set' = delete(redis_set, key[p])
    /\ Call(p, TRUE, TRUE, "clear", 0, IF redis_set[key[p]] = {} THEN "KeyError" ELSE "None")
    /\ Forgets(key[p])
    /\ UNCHANGED <<fixed, logging, redis_bits, mongo_docs, mongo_index, local>>

RedisDupeFilter_clear(p) ==
    /\ CanStart(p, "RedisDupeFilter")
    /\ redis_set' = delete(redis_set, key[p])
    /\ Call(p, TRUE, TRUE, "clear", 0, "None")
    /\ Forgets(key[p])
    /\ UNCHANGED <<fixed, logging, redis_bits, mongo_docs, mongo_index, local>>

RedisDupeFilter_close_persists(p) ==
    /\ CanStart(p, "RedisDupeFilter")
    /\ \E reason \in Reasons :
         /\ redis_set' = redis_set
         /\ Call(p, TRUE, TRUE, "close", 0, "None")
    /\ Forgets(key[p])
    /\ UNCHANGED <<fixed, logging, redis_bits, mongo_docs, mongo_index, local>>

RedisDupeFilter_close(p) ==
    /\ CanStart(p, "RedisDupeFilter")
    /\ \E reason \in Reasons :
         /\ redis_set' = delete(redis_set, key[p])
         /\ Call(p, TRUE, TRUE, "close", 0, "None")
    /\ Forgets(key[p])
    /\ UNCHANGED <<fixed, logging, redis_bits, mongo_docs, mongo_index, local>>

\* ------------------------------------------------- MongoDupeFilter
\* doc = find_one({"fp": fp}); if doc: return True
MongoDupeFilter_request_seen(p) ==
    /\ CanStart(p, "MongoDupeFilter")
    /\ \E f \in Fingerprints :
         IF find_one(mongo_docs[key[p]], f)
         THEN /\ Call(p, TRUE, TRUE, "request_seen", f, "True")
              /\ UNCHANGED local
         ELSE /\ Call(p, TRUE, FALSE, "request_seen", f, "none")
              /\ pc' = [pc EXCEPT ![p] = "insert_one"]
              /\ fp' = [fp EXCEPT ![p] = f]
              /\ UNCHANGED <<idx, exist>>
    /\ UNCHANGED <<fixed, logging, store, bloomhist>>

seen_after_insert_one(duplicate) == "True"

\* try: insert_one({"fp": fp})  except DuplicateKeyError: pass;  return False
after_insert_one(duplicate) == "False"

MongoDupeFilter_insert_one(p) ==
    /\ dupefilter_class = "MongoDupeFilter"
    /\ pc[p] = "insert_one"
    /\ LET k == key[p]
           duplicate == DuplicateKeyError(mongo_docs[k], mongo_index[k], fp[p])
       IN  /\ mongo_docs' = [mongo_docs EXCEPT ![k] = insert_one(@, mongo_index[k], fp[p])]
           /\ Call(p, FALSE, TRUE, "request_seen", fp[p], after_insert_one(duplicate))
           /\ Records(k, fp[p], after_insert_one(duplicate))
    /\ Idle(p)
    /\ UNCHANGED <<fixed, logging, redis_set, redis_bits, mongo_index>>

\* self.mongo.drop_collection(name): MongoClient has no such method, so the
\* attribute is the Database named "drop_collection" and calling it raises
\* TypeError; no collection is touched.
drop_collection(docs, k) == docs

drop_collection_result == "TypeError"

MongoDupeFilter_clear(p) ==
    /\ CanStart(p, "MongoDupeFilter")
    /\ mongo_docs' = drop_collection(mongo_docs, key[p])
    /\ Call(p, TRUE, TRUE, "clear", 0, drop_collection_result)
    /\ UNCHANGED <<fixed, logging, redis_set, redis_bits, mongo_index, local, bloomhist>>

MongoDupeFilter_close(p) ==
    /\ CanStart(p, "MongoDupeFilter")
    /\ \E reason \in Reasons :
         /\ mongo_docs' = drop_collection(mongo_docs, key[p])
         /\ Call(p, TRUE, TRUE, "close", 0, drop_collection_result)
    /\ UNCHANGED <<fixed, logging, redis_set, redis_bits, mongo_index, local, bloomhist>>

\* ------------------------------------------------ RedisBloomFilter
never_seen(e) == FALSE

seen_if_missing(e) == ~e

\* if self.bf.exists(fp): return True;  otherwise self.bf.insert(fp) follows
seen_if_exists(e) == e

return_seen_if_bit_was_set(old_bit) == IF old_bit THEN "True" ELSE "False"

\* self.bf.insert(fp); return False  -- whatever SETBIT found in the bit
return_after_insert(old_bit) == "False"

\* After the i-th GETBIT of exists (accumulator e): read on, return True, or
\* go on to insert.
AfterGetbit(p, starts, f, e, i) ==
    IF i < hash_number
    THEN /\ Call(p, starts, FALSE, "request_seen", f, "none")
         /\ pc' = [pc EXCEPT ![p] = "exists"]
         /\ fp' = [fp EXCEPT ![p] = f]
         /\ idx' = [idx EXCEPT ![p] = i]
         /\ exist' = [exist EXCEPT ![p] = e]
    ELSE IF seen_if_exists(e)
    THEN /\ Call(p, starts, TRUE, "request_seen", f, "True")
         /\ Idle(p)
    ELSE /\ Call(p, starts, FALSE, "request_seen", f, "none")
         /\ pc' = [pc EXCEPT ![p] = "insert"]
         /\ fp' = [fp EXCEPT ![p] = f]
         /\ idx' = [idx EXCEPT ![p] = 0]
         /\ exist' = [exist EXCEPT ![p] = TRUE]

RedisBloomFilter_request_seen(p) ==
    /\ CanStart(p, "RedisBloomFilter")
    /\ \E f \in Fingerprints :
         /\ AfterGetbit(p, TRUE, f, getbit(redis_bits[key[p]], offset(f, 0)), 1)
         /\ known' = [known EXCEPT ![p] = f \in recorded[key[p]] /\ pc'[p] # "idle"]
    /\ UNCHANGED <<fixed, logging, store, ret_false, recorded, overlap, inserted>>

BloomFilter_exists(p) ==
    /\ dupefilter_class = "RedisBloomFilter"
    /\ pc[p] = "exists"
    /\ AfterGetbit(p, FALSE, fp[p],
                   exist[p] /\ getbit(redis_bits[key[p]], offset(fp[p], idx[p])), idx[p] + 1)
    /\ known' = [known EXCEPT ![p] = @ /\ pc'[p] # "idle"]
    /\ UNCHANGED <<fixed, logging, store, ret_false, recorded, overlap, inserted>>

BloomFilter_insert(p) ==
    /\ dupefilter_class = "RedisBloomFilter"
    /\ pc[p] = "insert"
    /\ LET k == key[p]
           f == fp[p]
           clean == IF idx[p] = 0 THEN TRUE ELSE ~overlap[p]
           old_bit == getbit(redis_bits[k], offset(f, idx[p]))
       IN  /\ redis_bits' = [redis_bits EXCEPT ![k] = setbit(@, offset(f, idx[p]))]
           /\ inserted' = [inserted EXCEPT ![k] = @ \cup {f}]
           /\ IF idx[p] + 1 < hash_number
              THEN /\ Call(p, FALSE, FALSE, "request_seen", f, "none")
                   /\ idx' = [idx EXCEPT ![p] = @ + 1]
                   /\ overlap' = [overlap EXCEPT ![p] = ~clean]
                   /\ UNCHANGED <<pc, fp, exist, ret_false, recorded, known>>
              ELSE /\ Call(p, FALSE, TRUE, "request_seen", f, return_after_insert(old_bit))
                   /\ Idle(p)
                   /\ overlap' = [overlap EXCEPT ![p] = FALSE]
                   /\ known' = [known EXCEPT ![p] = FALSE]
                   /\ ret_false' = [ret_false EXCEPT ![k] = @ \cup {f}]
                   /\ recorded' = [recorded EXCEPT ![k] = IF clean THEN @ \cup {f} ELSE @]
    /\ UNCHANGED <<fixed, logging, redis_set, mongo_docs, mongo_index>>

\* self.server.delete(self.key), with the record of which inserts it overlaps.
BloomDelete(p, op) ==
    LET k == key[p]
    IN  /\ redis_bits' = delete(redis_bits, k)
        /\ Call(p, TRUE, TRUE, op, 0, "None")
        /\ ret_false' = [ret_false EXCEPT ![k] = {}]
        /\ recorded' = [recorded EXCEPT ![k] = {}]
        /\ overlap' = [q \in Procs |->
                         IF key[q] = k /\ pc[q] = "insert" /\ idx[q] > 0 THEN TRUE ELSE overlap[q]]
        /\ known' = [q \in Procs |-> IF key[q] = k THEN FALSE ELSE known[q]]
        /\ UNCHANGED <<fixed, logging, redis_set, mongo_docs, mongo_index, local, inserted>>

RedisBloomFilter_clear(p) ==
    /\ CanStart(p, "RedisBloomFilter")
    /\ BloomDelete(p, "clear")

RedisBloomFilter_close(p) ==
    /\ CanStart(p, "RedisBloomFilter")
    /\ \E reason \in Reasons : BloomDelete(p, "close")

Next ==
    \E p \in Procs :
        \/ RedisDupeFilter_request_seen(p)
        \/ RedisDupeFilter_clear(p)
        \/ RedisDupeFilter_close(p)
        \/ MongoDupeFilter_request_seen(p)
        \/ MongoDupeFilter_insert_one(p)
        \/ MongoDupeFilter_clear(p)
        \/ MongoDupeFilter_close(p)
        \/ RedisBloomFilter_request_seen(p)
        \/ BloomFilter_exists(p)
        \/ BloomFilter_insert(p)
        \/ RedisBloomFilter_clear(p)
        \/ RedisBloomFilter_close(p)

Spec == Init /\ [][Next]_vars

\* -------------------------------------------------- store failures
\* What a store operation raises when the store cannot be reached or does not
\* answer in time.  The failed operation leaves the store as it was.
StoreErrors == {"ConnectionError", "TimeoutError"}

\* Behaviours with store failures are followed for one call fewer.
MaxOpsFail == MaxOps - 1

\* The store calls of the Redis-backed filters and find_one, drop_collection
\* stand in no try block: what they raise leaves the method.
uncaught(err) == err

except_Exception(err) == "False"

\* try: insert_one(...)  except DuplicateKeyError: pass;  return False
except_DuplicateKeyError(err) == IF err = "DuplicateKeyError" THEN "False" ELSE err

\* The call of p ends in this step with what the failed operation makes of it.
Raises(p, starts, op, f, res, err) ==
    /\ nops' = IF starts THEN nops + 1 ELSE nops
    /\ ev' = [NoEvent EXCEPT !.proc = p, !.op = op, !.fp = f, !.res = res]
    /\ fault' = err
    /\ only' = [only EXCEPT ![p] = "more"]
    /\ ctx' = [ctx EXCEPT ![p] = "none"]
    /\ quiet' = [quiet EXCEPT ![key[p]] = "none"]
    /\ UNCHANGED <<submitted, cleared>>
    /\ Idle(p)
    /\ overlap' = [overlap EXCEPT ![p] = FALSE]
    /\ known' = [known EXCEPT ![p] = FALSE]
    /\ UNCHANGED <<fixed, logging, store, ret_false, recorded, inserted>>

\* self.server.sadd(self.key, fp) raises
RedisDupeFilter_request_seen_raises(p) ==
    /\ CanStart(p, "RedisDupeFilter")
    /\ \E f \in Fingerprints, err \in StoreErrors :
         Raises(p, TRUE, "request_seen", f, uncaught(err), err)

\* self.server.delete(self.key) raises, in clear() or in the clear() of close()
RedisDupeFilter_clear_raises(p) ==
    /\ CanStart(p, "RedisDupeFilter")
    /\ \E op \in {"clear", "close"}, err \in StoreErrors :
         Raises(p, TRUE, op, 0, uncaught(err), err)

\* find_one raises
MongoDupeFilter_request_seen_raises(p) ==
    /\ CanStart(p, "MongoDupeFilter")
    /\ \E f \in Fingerprints, err \in StoreErrors :
         Raises(p, TRUE, "request_seen", f, uncaught(err), err)

\* insert_one raises something other than DuplicateKeyError
MongoDupeFilter_insert_one_raises(p) ==
    /\ dupefilter_class = "MongoDupeFilter"
    /\ pc[p] = "insert_one"
    /\ \E err \in StoreErrors :
         Raises(p, FALSE, "request_seen", fp[p], except_DuplicateKeyError(err), err)

\* a GETBIT of self.bf.exists(fp) raises: the first one or a later one
BloomFilter_exists_raises(p) ==
    /\ dupefilter_class = "RedisBloomFilter"
    /\ \E err \in StoreErrors :
         \/ /\ CanStart(p, "RedisBloomFilter")
            /\ \E f \in Fingerprints : Raises(p, TRUE, "request_seen", f, uncaught(err), err)
         \/ /\ pc[p] = "exists"
            /\ Raises(p, FALSE, "request_seen", fp[p], uncaught(err), err)

\* a SETBIT of self.bf.insert(fp) raises; the bits set before it stay
BloomFilter_insert_raises(p) ==
    /\ dupefilter_class = "RedisBloomFilter"
    /\ pc[p] = "insert"
    /\ \E err \in StoreErrors :
         Raises(p, FALSE, "request_seen", fp[p], uncaught(err), err)

\* self.server.delete(self.key) raises, in clear() or in the clear() of close()
RedisBloomFilter_clear_raises(p) ==
    /\ CanStart(p, "RedisBloomFilter")
    /\ \E op \in {"clear", "close"}, err \in StoreErrors :
         Raises(p, TRUE, op, 0, uncaught(err), err)

InitFail == InitFilters /\ debug = FALSE /\ budget = MaxOpsFail

NextFail ==
    \/ Next
    \/ \E p \in Procs :
         \/ RedisDupeFilter_request_seen_raises(p)
         \/ RedisDupeFilter_clear_raises(p)
         \/ MongoDupeFilter_request_seen_raises(p)
         \/ MongoDupeFilter_insert_one_raises(p)
         \/ BloomFilter_exists_raises(p)
         \/ BloomFilter_insert_raises(p)
         \/ RedisBloomFilter_clear_raises(p)

SpecFail == InitFail /\ [][NextFail]_vars

\* ------------------------------------------------------------- log
\* self.logger: RedisDupeFilter and RedisBloomFilter bind the module logger
\* as a class attribute (logger = logger); MongoDupeFilter binds none, its
\* __init__ sets none and scrapy's BaseDupeFilter has none, so reading it
\* raises AttributeError.
self_logger(class) == IF class = "MongoDupeFilter" THEN "AttributeError" ELSE "logger"

\* log(request, spider):
\*   if self.debug: self.logger.debug(...)
\*   elif self.logdupes: self.logger.debug(...); self.logdupes = False
\*   spider.crawler.stats.inc_value(<counter>, spider=spider)
\* An exception raised by the read of self.logger ends the call there.
log(p, class) ==
    /\ LET emits == debug \/ logdupes[p]
           raised == emits /\ self_logger(class) = "AttributeError"
       IN  /\ nlog' = [nlog EXCEPT ![p] = @ + 1]
           /\ logged' = [logged EXCEPT ![p] = IF emits /\ ~raised THEN @ + 1 ELSE @]
           /\ logdupes' = [logdupes EXCEPT ![p] = IF ~debug /\ ~raised THEN FALSE ELSE @]
           /\ filtered' = [filtered EXCEPT ![p] = IF raised THEN @ ELSE @ + 1]
    /\ nops' = nops + 1
    /\ UNCHANGED <<fixed, store, local, bloomhist, fault>>
    /\ UNCHANGED <<only, ev, submitted, quiet, ctx, cleared>>

RedisDupeFilter_log(p) ==
    /\ CanStart(p, "RedisDupeFilter")
    /\ log(p, "RedisDupeFilter")

RedisBloomFilter_log(p) ==
    /\ CanStart(p, "RedisBloomFilter")
    /\ log(p, "RedisBloomFilter")

MongoDupeFilter_log(p) ==
    /\ CanStart(p, "MongoDupeFilter")
    /\ log(p, "MongoDupeFilter")

InitLog == InitFilters /\ debug \in BOOLEAN /\ budget = MaxOps

NextLog ==
    \/ Next
    \/ \E p \in Procs :
         \/ RedisDupeFilter_log(p)
         \/ RedisBloomFilter_log(p)
         \/ MongoDupeFilter_log(p)

SpecLog == InitLog /\ [][NextLog]_vars

\* ------------------------------------------------------- properties
Callers(k) == {p \in Procs : key[p] = k}
Returned(op) == ev.op = op
EvKey == key[ev.proc]
Exact == dupefilter_class \in {"RedisDupeFilter", "MongoDupeFilter"}
RedisBacked == dupefilter_class \in {"RedisDupeFilter", "RedisBloomFilter"}
EachCalledOnce(k) ==
    /\ ~cleared[k]
    /\ Cardinality(submitted[k]) = 1
    /\ \A p \in Callers(k) : only[p] \in {"True", "False"}
Falses(k) == {p \in Callers(k) : only[p] = "False"}

\* C1: with a single caller on a namespace that was never cleared, a
\* request_seen(f) of RedisDupeFilter or MongoDupeFilter returns True exactly
\* when an earlier request_seen(f) on the namespace has returned (so the
\* first call for f returns False and every later one True).
C1_FirstFalseThenTrue ==
    (/\ Exact
     /\ Returned("request_seen")
     /\ Cardinality(Callers(EvKey)) = 1
     /\ ~cleared[EvKey])
    => (ev.res = IF ev.again THEN "True" ELSE "False")

C1_Witness ==
    /\ dupefilter_class = "MongoDupeFilter"
    /\ Returned("request_seen")
    /\ Cardinality(Callers(EvKey)) = 1
    /\ ~cleared[EvKey]
    /\ ev.again
    /\ ev.res = "True"

\* C2: RedisDupeFilter, K >= 2 callers sharing a never-cleared key, each
\* having called request_seen once and all for the same fingerprint: exactly
\* one of the K calls returned False (and the other K-1 True).
C2_SetExactlyOneFalse ==
    \A k \in Keys :
        (/\ dupefilter_class = "RedisDupeFilter"
         /\ Cardinality(Callers(k)) >= 2
         /\ EachCalledOnce(k))
        => Cardinality(Falses(k)) = 1

C2_Witness ==
    /\ dupefilter_class = "RedisDupeFilter"
    /\ Cardinality(Callers("job1")) >= 2
    /\ EachCalledOnce("job1")
    /\ Cardinality(Falses("job1")) = 1

\* C3: MongoDupeFilter, K >= 2 callers sharing a never-cleared collection,
\* each having called request_seen once and all for the same fingerprint:
\* exactly one of the K calls returned False (and the other K-1 True).
C3_MongoExactlyOneFalse ==
    \A k \in Keys :
        (/\ dupefilter_class = "MongoDupeFilter"
         /\ Cardinality(Callers(k)) >= 2
         /\ EachCalledOnce(k))
        => Cardinality(Falses(k)) = 1

\* C4: RedisDupeFilter and RedisBloomFilter: the request_seen that follows a
\* completed clear() (no call in flight at the clear, none begun in between)
\* returns False, for a fingerprint seen before the clear as for any other.
C4_ClearResets ==
    (/\ RedisBacked
     /\ Returned("request_seen")
     /\ ev.after = "clear")
    => ev.res = "False"

C4_Witness ==
    /\ RedisBacked
    /\ Returned("request_seen")
    /\ ev.after = "clear"
    /\ ev.again
    /\ ev.res = "False"

\* C5: MongoDupeFilter: once clear() or close() has run with no call in
\* flight, the collection of the namespace holds no document, and the
\* request_seen that follows returns False for a fingerprint seen before.
C5_MongoClearDrops ==
    /\ \A k \in Keys :
          (dupefilter_class = "MongoDupeFilter" /\ quiet[k] # "none")
          => \A f \in Fingerprints : mongo_docs[k][f] = 0
    /\ (/\ dupefilter_class = "MongoDupeFilter"
        /\ Returned("request_seen")
        /\ ev.after # "none"
        /\ ev.again)
       => ev.res = "False"

\* C6: RedisDupeFilter and RedisBloomFilter: after a close(reason), whatever
\* the reason, the first request_seen of an instance that has made no call
\* before returns False, also for a fingerprint seen before the close.
C6_CloseResets ==
    (/\ RedisBacked
     /\ Returned("request_seen")
     /\ ev.after = "close"
     /\ ev.fresh)
    => ev.res = "False"

C6_Witness ==
    /\ RedisBacked
    /\ Returned("request_seen")
    /\ ev.after = "close"
    /\ ev.fresh
    /\ ev.again
    /\ ev.res = "False"

IsRecorded(k, f) ==
    IF dupefilter_class = "RedisDupeFilter" THEN f \in redis_set[k]
    ELSE offsets(f) \subseteq redis_bits[k]

\* C7: RedisDupeFilter and RedisBloomFilter: clear() and close() never raise,
\* also on a namespace that holds nothing; after either has run with no call
\* in flight the namespace is empty, however many ran in a row; and the
\* request_seen that follows returns False and leaves its fingerprint recorded.
C7_ClearIdempotentTotal ==
    RedisBacked =>
        /\ (Returned("clear") \/ Returned("close")) => ev.res = "None"
        /\ \A k \in Keys : quiet[k] # "none" => redis_set[k] = {} /\ redis_bits[k] = {}
        /\ (Returned("request_seen") /\ ev.after # "none")
           => ev.res = "False" /\ IsRecorded(EvKey, ev.fp)

C7_Witness ==
    /\ RedisBacked
    /\ Returned("clear")
    /\ ev.after \in {"clear", "close"}
    /\ submitted[EvKey] = {}
    /\ ev.res = "None"
    /\ quiet[EvKey] = "clear"

\* C8 as claimed: RedisBloomFilter: every fingerprint for which request_seen
\* has returned False since the last clear() has all its bits set (so every
\* later exists and request_seen for it returns True).
C8_SeenUntilClear ==
    dupefilter_class = "RedisBloomFilter" =>
        \A k \in Keys : \A f \in ret_false[k] : offsets(f) \subseteq redis_bits[k]

\* A step keeps every bit that is set, unless it is a clear/close on the key.
BitsKept ==
    \A k \in Keys :
        \/ redis_bits[k] \subseteq redis_bits'[k]
        \/ nops' = nops + 1 /\ ev'.op \in {"clear", "close"} /\ key[ev'.proc] = k

\* C8 as amended: the same for the fingerprints whose insert no clear()
\* overlapped; a request_seen that begins while its fingerprint is so
\* recorded returns True unless a clear() runs; and no step other than a
\* clear() or close() on the key unsets a bit.
C8_NoFalseNegatives ==
    /\ [](dupefilter_class = "RedisBloomFilter" =>
            /\ \A k \in Keys : \A f \in recorded[k] : offsets(f) \subseteq redis_bits[k]
            /\ (Returned("request_seen") /\ ev.known) => ev.res = "True")
    /\ [][BitsKept]_vars

C8_Witness ==
    /\ dupefilter_class = "RedisBloomFilter"
    /\ Returned("request_seen")
    /\ ev.known
    /\ ev.res = "True"
    /\ ev.fp \in recorded[EvKey]

\* C9 as claimed: RedisBloomFilter: request_seen(f) returns True (exists(f)
\* is true) only for a fingerprint f that has been inserted on the key.
C9_NeverInsertedNotSeen ==
    (/\ dupefilter_class = "RedisBloomFilter"
     /\ Returned("request_seen")
     /\ ev.res = "True")
    => ev.fp \in inserted[EvKey]

Covered(k, f) == offsets(f) \subseteq UNION {offsets(g) : g \in inserted[k]}

\* C9 as amended: request_seen(f) returns True only when every bit position
\* of f is a bit position of some fingerprint that has been inserted on the
\* key: a never-inserted f is reported new unless the inserted ones cover it.
C9_SeenOnlyIfCovered ==
    (/\ dupefilter_class = "RedisBloomFilter"
     /\ Returned("request_seen")
     /\ ev.res = "True")
    => Covered(EvKey, ev.fp)

C9_Witness ==
    /\ dupefilter_class = "RedisBloomFilter"
    /\ Returned("request_seen")
    /\ ev.fp \notin inserted[EvKey]
    /\ ev.res = "True"
    /\ Covered(EvKey, ev.fp)

\* C10: RedisBloomFilter: a caller whose exists found the fingerprint missing
\* returns False when its insert ends, whatever other callers have set in
\* between: two callers of request_seen(f) can both return False.
C10_CheckThenInsert ==
    [][\A p \in Procs :
          (dupefilter_class = "RedisBloomFilter" /\ pc[p] = "insert" /\ pc'[p] = "idle")
          => (ev'.proc = p /\ ev'.op = "request_seen" /\ ev'.res = "False")]_vars

C10_Witness ==
    /\ dupefilter_class = "RedisBloomFilter"
    /\ Cardinality(Callers("job1")) >= 2
    /\ EachCalledOnce("job1")
    /\ \A p \in Callers("job1") : only[p] = "False"
    /\ ev.again

\* f is a member of the seen-set named k, as the filter class stores it.
Stored(k, f) ==
    CASE dupefilter_class = "RedisDupeFilter" -> f \in redis_set[k]
      [] dupefilter_class = "MongoDupeFilter" -> mongo_docs[k][f] > 0
      [] OTHER -> offsets(f) \subseteq redis_bits[k]

\* What a seen-set named k can hold from the calls made on k alone.
FromOwnKey(k) ==
    /\ redis_set[k] \subseteq submitted[k]
    /\ \A f \in Fingerprints : mongo_docs[k][f] > 0 => f \in submitted[k]
    /\ redis_bits[k] \subseteq UNION {offsets(f) : f \in inserted[k]}

\* C11: membership lives in the store under the key alone.  A request_seen(f)
\* that is the first call of its instance, and begins when another instance
\* on the same key has recorded f (its request_seen(f) returned False, no
\* clear() since), returns True; every fingerprint recorded on a key stays
\* stored under it whatever calls are made on another key; and a key holds
\* nothing but what calls on that key put there.
C11_SharedByKeyOnly ==
    /\ (Returned("request_seen") /\ ev.fresh /\ ev.known) => ev.res = "True"
    /\ \A k \in Keys : \A f \in recorded[k] : Stored(k, f)
    /\ \A k \in Keys : FromOwnKey(k)

C11_Witness ==
    /\ Returned("request_seen")
    /\ ev.fresh
    /\ ev.known
    /\ ev.res = "True"
    /\ ev.fp \in recorded[EvKey]
    /\ Cardinality(Callers(EvKey)) >= 2

Logs(p, n) ==
    /\ filtered[p] = n
    /\ logged[p] = IF debug THEN n ELSE IF n = 0 THEN 0 ELSE 1
    /\ logdupes[p] = (debug \/ n = 0)

\* C12: after n log() calls on an instance its stats counter has been
\* incremented n times; with debug on it has logged n messages and logdupes is
\* still true; with debug off it has logged one message (on the first call)
\* and logdupes is false from that call on, whatever clear() and close()
\* calls are made and whatever another instance logs.
C12_LogPolicy == \A p \in Procs : Logs(p, nlog[p])

\* The same policy, of the two filters that bind a logger.
C12_LogPolicyWithLogger == RedisBacked => C12_LogPolicy

C12_Witness ==
    /\ RedisBacked
    /\ ~debug
    /\ \E p \in Procs : nlog[p] >= 2 /\ logged[p] = 1 /\ cleared[key[p]]

\* C13: in all three filters, when a store operation inside request_seen,
\* clear or close fails (connection error or timeout), the call returns
\* neither True nor False nor None: it ends with the error the store
\* operation raised.  The one exception a filter absorbs is the
\* DuplicateKeyError of the Mongo insert.
C13_FailFast ==
    /\ fault # "none" => (ev.res = fault /\ ev.res \notin {"True", "False", "None"})
    /\ ev.res \in {"True", "False", "None"} => fault = "none"

C13_Witness ==
    /\ dupefilter_class = "MongoDupeFilter"
    /\ fault \in StoreErrors
    /\ Returned("request_seen")
    /\ ev.res = fault
    /\ mongo_docs[EvKey][ev.fp] > 0

\* C14: RedisDupeFilter and MongoDupeFilter on a key that was never cleared,
\* no store operation failing: every fingerprint for which a request_seen
\* has returned has had a request_seen return False, and a request_seen
\* returns True only for a fingerprint that is in the store and for which an
\* earlier call returned False.
C14_NoLostWork ==
    Exact =>
        /\ \A k \in Keys : ~cleared[k] => submitted[k] \subseteq ret_false[k]
        /\ (Returned("request_seen") /\ ev.res = "True" /\ ~cleared[EvKey])
           => (Stored(EvKey, ev.fp) /\ ev.fp \in ret_false[EvKey])

C14_Witness ==
    /\ Exact
    /\ Returned("request_seen")
    /\ ~cleared[EvKey]
    /\ ev.res = "True"
    /\ ev.fresh
    /\ Cardinality(submitted[EvKey]) >= 2

\* The call of instance p returns in this step.
ReturnsNow(p) ==
    /\ ev'.proc = p
    /\ \/ nops' = nops + 1 /\ pc' = pc
       \/ pc[p] # "idle" /\ pc'[p] = "idle"

\* Instance p takes this step.
Acts(p) == pc'[p] # pc[p] \/ idx'[p] # idx[p] \/ ReturnsNow(p)

\* This step puts something into a store.
Grows ==
    \E k \in Keys :
        \/ redis_set'[k] \ redis_set[k] # {}
        \/ redis_bits'[k] \ redis_bits[k] # {}
        \/ \E f \in Fingerprints : mongo_docs'[k][f] > mongo_docs[k][f]

\* C15: in all three filters a request_seen that returns True has changed
\* nothing in the stores: neither the step in which it returns True nor the
\* lookup steps before it (find_one, the GETBITs of exists) change a store;
\* every step that puts something into a store belongs to a request_seen
\* that returns False.
C15_SeenLeavesStore ==
    [][/\ \A p \in Procs :
            /\ (ReturnsNow(p) /\ ev'.op = "request_seen" /\ ev'.res = "True")
               => store' = store
            /\ (Acts(p) /\ pc'[p] \in {"exists", "insert_one"}) => store' = store
            /\ (Acts(p) /\ pc[p] = "exists") => store' = store
       /\ Grows =>
            \E p \in Procs :
                \/ ReturnsNow(p) /\ ev'.op = "request_seen" /\ ev'.res = "False"
                \/ pc[p] = "insert" /\ pc'[p] = "insert" /\ idx'[p] # idx[p]]_vars

C15_Witness ==
    /\ Returned("request_seen")
    /\ ev.res = "True"
    /\ \E p \in Procs \ {ev.proc} : pc[p] = "insert" /\ idx[p] > 0

\* C16: a MongoDupeFilter collection never holds two documents of one
\* fingerprint: it holds exactly one document of each fingerprint a
\* request_seen has returned for, and none of any other; when two callers
\* both miss and both insert, the second insert changes nothing and its
\* caller still gets a boolean.
C16_OneDocumentPerFingerprint ==
    dupefilter_class = "MongoDupeFilter" =>
        /\ \A k \in Keys : \A f \in Fingerprints :
             /\ mongo_docs[k][f] <= 1
             /\ mongo_docs[k][f] = IF f \in submitted[k] THEN 1 ELSE 0
        /\ Returned("request_seen") => ev.res \in {"True", "False"}

C16_Witness ==
    /\ dupefilter_class = "MongoDupeFilter"
    /\ Returned("request_seen")
    /\ ev.res = "False"
    /\ ev.again
    /\ \A p \in Callers(EvKey) : only[p] = "False"
    /\ Cardinality(Callers(EvKey)) >= 2
    /\ submitted[EvKey] = {ev.fp}
    /\ mongo_docs[EvKey][ev.fp] = 1

\* No instance on key k is inside a call.
Quiescent(k) == \A p \in Callers(k) : pc[p] = "idle"

\* The bit string a sequence of whole inserts, after the last clear, leaves.
WholeInserts(bits) == \E S \in SUBSET Fingerprints : bits = UNION {offsets(f) : f \in S}

\* C17: with clear() racing request_seen in any of the three filters, every
\* call completes without error, and once the calls on a key are over its
\* store is what some sequential order of them leaves: members and documents
\* of submitted fingerprints only, and a bit string made of whole
\* fingerprints, never of some but not all bit positions of one.
C17_ClearRaceSafe ==
    /\ ev.res \in {"none", "True", "False", "None"}
    /\ \A k \in Keys :
         Quiescent(k) =>
             /\ FromOwnKey(k)
             /\ WholeInserts(redis_bits[k])

\* The part of C17 that RedisDupeFilter keeps: SADD and DEL are single
\* store operations, so a racing clear() leaves the set either with or
\* without the racing fingerprint and no call fails.
C17_SetClearRaceSafe == dupefilter_class = "RedisDupeFilter" => C17_ClearRaceSafe

\* The part of C17 that RedisBloomFilter breaks with no call failing.
C17_BloomWholeInserts ==
    dupefilter_class = "RedisBloomFilter" =>
        \A k \in Keys : Quiescent(k) => WholeInserts(redis_bits[k])
====
